---- MODULE Spec2Model ----
(***************************************************************************)
(* Model of App_readonly.py, the read-only Streamlit dashboard of the      *)
(* acacia-dashboard repository: one script run ("render cycle") loads an   *)
(* Excel table, validates it (ensure_columns), keeps a session copy,       *)
(* recomputes the derived columns (recompute_progress) and computes the    *)
(* global KPI, the per-step and the per-phase tables.                      *)
(*                                                                         *)
(* Representation.                                                         *)
(*  - A DataFrame is [cols |-> set of column names, rows |-> sequence of   *)
(*    functions column -> cell].                                           *)
(*  - A cell of PHASE, ASSEMBLY NO., PART NO. or TOT MASS (Kg) is          *)
(*    [t, n, s]: a number (t = "num", value n), a string (t = "str", the   *)
(*    sequence s of its character codes) or a missing value (t = "nan").   *)
(*  - A cell of Etape is [t, v] with v a string, or missing (t = "nan").   *)
(*  - A float (RowProgress%, CompletedMass_Row, every sum and percentage)  *)
(*    is an exact rational [num, den] in lowest terms, den > 0: rounding   *)
(*    of IEEE doubles is not modelled.                                     *)
(***************************************************************************)
EXTENDS Integers, Sequences, FiniteSets, TLC

VARIABLES
    pc,                 \* position of the script run
    uploaded,           \* st.sidebar.file_uploader value: <<>> (None) or <<[name, file]>>
    heap,               \* DataFrame objects of this run, by reference 1..Len(heap)
    df_loaded,          \* the name df_loaded: a reference into heap, 0 when unbound
    current_source_key, \* the name current_source_key: <<>> when unbound
    session_state,      \* st.session_state: a function on the keys present
    error,              \* st.error message shown by this run, <<>> when none
    caption,            \* st.caption shown by this run, <<>> when none
    kpi,                \* <<>> or <<[total_mass, completed_global_mass, progress_global]>>
    df_steps,           \* <<>> or <<result of step_advancement>>
    df_phase,           \* <<>> or <<result of phase_advancement>>
    df_asm,             \* <<>> or <<result of assembly_table>>
    source_label,       \* the name source_label: <<>> when unbound
    default_file        \* the file at DEFAULT_XLSX

vars == <<pc, uploaded, heap, df_loaded, current_source_key, session_state,
          error, caption, kpi, df_steps, df_phase, df_asm, source_label,
          default_file>>

(***************************************************************************)
(* Bounds of the model.                                                    *)
(***************************************************************************)
MaxRows == 2        \* rows of a generated table (SpecFn)
MaxAppRows == 1     \* rows of a file of the multi-run application (Spec)

(***************************************************************************)
(* Exact rationals standing for Python floats.                             *)
(***************************************************************************)
Abs(x) == IF x < 0 THEN -x ELSE x

RECURSIVE GCD(_, _)
GCD(a, b) == IF b = 0 THEN a ELSE GCD(b, a % b)

Q(n, d) ==
    LET g == GCD(Abs(n), Abs(d))
        sg == IF d < 0 THEN -1 ELSE 1
    IN  [num |-> sg * (n \div g), den |-> sg * (d \div g)]

QInt(n) == [num |-> n, den |-> 1]
QZero == QInt(0)
QAdd(a, b) == Q(a.num * b.den + b.num * a.den, a.den * b.den)
QMul(a, b) == Q(a.num * b.num, a.den * b.den)
QDiv(a, b) == Q(a.num * b.den, a.den * b.num)
QGt(a, b) == a.num * b.den > b.num * a.den
QGeq(a, b) == a.num * b.den >= b.num * a.den

RECURSIVE QSum(_)
QSum(s) == IF s = <<>> THEN QZero ELSE QAdd(Head(s), QSum(Tail(s)))

(***************************************************************************)
(* Cells.                                                                  *)
(***************************************************************************)
Num(n) == [t |-> "num", n |-> n, s |-> <<>>]
Str(s) == [t |-> "str", n |-> 0, s |-> s]
NaN == [t |-> "nan", n |-> 0, s |-> <<>>]
Label(v) == [t |-> "str", v |-> v]
NoLabel == [t |-> "nan", v |-> ""]

\* str(n) for an integer n: its decimal digits, as character codes.
RECURSIVE Digits(_)
Digits(n) == IF n < 10 THEN <<48 + n>> ELSE Digits(n \div 10) \o <<48 + (n % 10)>>

IntStr(n) == IF n < 0 THEN <<45>> \o Digits(-n) ELSE Digits(n)

\* Python's < on strings: lexicographic on the code points.
RECURSIVE LexLess(_, _)
LexLess(a, b) ==
    IF b = <<>> THEN FALSE
    ELSE IF a = <<>> THEN TRUE
    ELSE IF Head(a) # Head(b) THEN Head(a) < Head(b)
    ELSE LexLess(Tail(a), Tail(b))

\* sorted(S) for a set of strings.
RECURSIVE Sorted(_)
Sorted(S) ==
    IF S = {} THEN <<>>
    ELSE LET m == CHOOSE x \in S : \A y \in S \ {x} : LexLess(x, y)
         IN  <<m>> \o Sorted(S \ {m})

Range(s) == {s[i] : i \in DOMAIN s}

(***************************************************************************)
(* 0) Configuration: steps, ranks and weights.                             *)
(***************************************************************************)
STEPS_ORDER == <<"Préparation", "Assemblage", "Traitement de surface", "Finalisation">>

\* STEP_RANK.get(s, -1) for the value s of an Etape cell.
STEP_RANK_get(cell) ==
    IF cell.t = "str" /\ \E i \in DOMAIN STEPS_ORDER : STEPS_ORDER[i] = cell.v
    THEN (CHOOSE i \in DOMAIN STEPS_ORDER : STEPS_ORDER[i] = cell.v) - 1
    ELSE -1

STEP_RANK(step) == STEP_RANK_get(Label(step))

PROGRESS_MAP ==
    ("Préparation" :> Q(25, 100)) @@ ("Assemblage" :> Q(60, 100)) @@
    ("Traitement de surface" :> Q(85, 100)) @@ ("Finalisation" :> Q(100, 100)) @@
    ("None" :> Q(0, 100))

(***************************************************************************)
(* DataFrame helpers.                                                      *)
(***************************************************************************)
Column(df, c) == [i \in DOMAIN df.rows |-> df.rows[i][c]]

\* df[c] = values: the column is replaced, or added when absent.
Assign(df, c, values) ==
    [cols |-> df.cols \cup {c},
     rows |-> [i \in DOMAIN df.rows |-> (c :> values[i]) @@ df.rows[i]]]

\* df.loc[mask, c] as a sequence, in row order; mask is a Boolean per row.
Loc(df, mask, c) ==
    LET kept == SelectSeq([i \in DOMAIN df.rows |-> i], LAMBDA i : mask[i])
    IN  [k \in DOMAIN kept |-> df.rows[kept[k]][c]]

MassOf(cell) == QInt(cell.n)
MassSum(cells) == QSum([i \in DOMAIN cells |-> MassOf(cells[i])])

(***************************************************************************)
(* 1) Loading and validation.                                              *)
(***************************************************************************)
DEFAULT_XLSX == "Structural_data.xlsx"

\* load_excel: the first sheet of a readable workbook.  st.cache_data keys the
\* call on the path or on the uploaded file's name and content and hands out
\* a fresh copy of the cached table at every call.
load_excel(file) == file.table

required == <<"PHASE", "ASSEMBLY NO.", "PART NO.", "TOT MASS (Kg)">>

\* Variant: "PART NO." is not among the columns checked.
FirstMissing_noPart(cols) ==
    LET checked == {i \in DOMAIN required : required[i] # "PART NO."}
    IN  IF \A i \in checked : required[i] \in cols THEN 0
        ELSE CHOOSE i \in checked :
                /\ required[i] \notin cols
                /\ \A j \in checked : j < i => required[j] \in cols

\* The first required column absent from cols, 0 when none is.
FirstMissing(cols) ==
    IF \A i \in DOMAIN required : required[i] \in cols THEN 0
    ELSE CHOOSE i \in DOMAIN required :
            /\ required[i] \notin cols
            /\ \A j \in 1..(i - 1) : required[j] \in cols

\* Series.astype(str): a column of numbers with a missing value is float64
\* and prints "2.0"; a missing value prints "nan".
astype_str(cells) ==
    LET isFloat == /\ \A i \in DOMAIN cells : cells[i].t # "str"
                   /\ \E i \in DOMAIN cells : cells[i].t = "nan"
        str(c) == IF c.t = "str" THEN c.s
                  ELSE IF c.t = "nan" THEN <<110, 97, 110>>
                  ELSE IF isFloat THEN IntStr(c.n) \o <<46, 48>>
                  ELSE IntStr(c.n)
    IN  [i \in DOMAIN cells |-> Str(str(cells[i]))]

IsDigits(s) == s # <<>> /\ \A i \in DOMAIN s : s[i] \in 48..57

RECURSIVE DigitsValue(_)
DigitsValue(s) ==
    IF s = <<>> THEN 0
    ELSE DigitsValue(SubSeq(s, 1, Len(s) - 1)) * 10 + (s[Len(s)] - 48)

\* pd.to_numeric(errors="coerce").fillna(0.0): numbers pass (negative ones
\* too), strings of digits with an optional sign are parsed, the rest is 0.0.
to_numeric_fillna(cells) ==
    LET val(c) == IF c.t = "num" THEN c.n
                  ELSE IF c.t = "str" /\ IsDigits(c.s) THEN DigitsValue(c.s)
                  ELSE IF c.t = "str" /\ c.s # <<>> /\ Head(c.s) = 45 /\ IsDigits(Tail(c.s))
                       THEN -DigitsValue(Tail(c.s))
                  ELSE 0
    IN  [i \in DOMAIN cells |-> Num(val(cells[i]))]

\* Lines 68-78 on the table itself.
Harmonise(df) ==
    LET d1 == Assign(df, "PHASE", astype_str(Column(df, "PHASE")))
        d2 == Assign(d1, "TOT MASS (Kg)", to_numeric_fillna(Column(d1, "TOT MASS (Kg)")))
        d3 == IF "Etape" \notin d2.cols
              THEN Assign(d2, "Etape", [i \in DOMAIN d2.rows |-> Label("None")]) ELSE d2
        d4 == IF "RowProgress%" \notin d3.cols
              THEN Assign(d3, "RowProgress%", [i \in DOMAIN d3.rows |-> QZero]) ELSE d3
        d5 == IF "CompletedMass_Row" \notin d4.cols
              THEN Assign(d4, "CompletedMass_Row", [i \in DOMAIN d4.rows |-> QZero]) ELSE d4
    IN  d5

\* ensure_columns(df) on the object at reference ref of heap h: the new heap,
\* the reference returned and the error shown.  A missing column stops the
\* script before anything is assigned; otherwise the assignments of lines
\* 69-77 write into the object passed in, which is also the one returned.
ensure_columns(h, ref) ==
    LET m == FirstMissing(h[ref].cols)
    IN  IF m # 0
        THEN [heap |-> h, ret |-> 0, stopped |-> TRUE,
              error |-> <<"Colonne manquante dans Excel", required[m]>>]
        ELSE [heap |-> [h EXCEPT ![ref] = Harmonise(h[ref])], ret |-> ref,
              stopped |-> FALSE, error |-> <<>>]

(***************************************************************************)
(* 2) Calculations.                                                        *)
(***************************************************************************)
\* out["Etape"].map(PROGRESS_MAP).fillna(0.0) for one cell.
ProgressOf(cell) ==
    IF cell.t = "str" /\ cell.v \in DOMAIN PROGRESS_MAP THEN PROGRESS_MAP[cell.v] ELSE QZero

\* Variant: derived columns that exist already are kept as they are.
recompute_progress_keep(df) ==
    LET o1 == IF "RowProgress%" \in df.cols THEN df
              ELSE Assign(df, "RowProgress%",
                          [i \in DOMAIN df.rows |-> ProgressOf(df.rows[i]["Etape"])])
    IN  IF "CompletedMass_Row" \in o1.cols THEN o1
        ELSE Assign(o1, "CompletedMass_Row",
                    [i \in DOMAIN o1.rows |->
                         QMul(MassOf(o1.rows[i]["TOT MASS (Kg)"]), o1.rows[i]["RowProgress%"])])

recompute_progress(df) ==
    LET o1 == Assign(df, "RowProgress%",
                     [i \in DOMAIN df.rows |-> ProgressOf(df.rows[i]["Etape"])])
    IN  Assign(o1, "CompletedMass_Row",
               [i \in DOMAIN o1.rows |->
                    QMul(MassOf(o1.rows[i]["TOT MASS (Kg)"]), o1.rows[i]["RowProgress%"])])

\* Variant: no guard, so that 0 / 0 is the float nan, written 0/0 here.
PctOf_unguarded(x, total) ==
    IF total # QZero THEN QMul(QDiv(x, total), QInt(100)) ELSE [num |-> 0, den |-> 0]

\* (x / total) * 100 if total > 0 else 0.0
PctOf(x, total) ==
    IF QGt(total, QZero) THEN QMul(QDiv(x, total), QInt(100)) ELSE QZero

step_advancement(df) ==
    LET total_mass == MassSum(Column(df, "TOT MASS (Kg)"))
        row(step) ==
            LET reached == [i \in DOMAIN df.rows |->
                               STEP_RANK_get(df.rows[i]["Etape"]) >= STEP_RANK(step)]
                treated_mass == MassSum(Loc(df, reached, "TOT MASS (Kg)"))
            IN  ("Etape" :> step) @@ ("CompletedMass" :> treated_mass) @@
                ("Avancement%" :> PctOf(treated_mass, total_mass))
    IN  [i \in DOMAIN STEPS_ORDER |-> row(STEPS_ORDER[i])]

\* Variant: the rows without a phase are left out, as pandas does by default
\* for missing values.
phase_advancement_dropna(df) ==
    LET phases == Sorted({df.rows[i]["PHASE"].s : i \in DOMAIN df.rows} \ {<<110, 97, 110>>})
        row(phase) ==
            LET inPhase == [i \in DOMAIN df.rows |-> df.rows[i]["PHASE"].s = phase]
                phase_total_mass == MassSum(Loc(df, inPhase, "TOT MASS (Kg)"))
                treated_mass == QSum(Loc(df, inPhase, "CompletedMass_Row"))
            IN  ("PHASE" :> phase) @@ ("CompletedMass" :> treated_mass) @@
                ("Avancement%" :> PctOf(treated_mass, phase_total_mass))
    IN  [i \in DOMAIN phases |-> row(phases[i])]

phase_advancement(df) ==
    LET phases == Sorted({df.rows[i]["PHASE"].s : i \in DOMAIN df.rows})
        row(phase) ==
            LET inPhase == [i \in DOMAIN df.rows |-> df.rows[i]["PHASE"].s = phase]
                phase_total_mass == MassSum(Loc(df, inPhase, "TOT MASS (Kg)"))
                treated_mass == QSum(Loc(df, inPhase, "CompletedMass_Row"))
            IN  ("PHASE" :> phase) @@ ("CompletedMass" :> treated_mass) @@
                ("Avancement%" :> PctOf(treated_mass, phase_total_mass))
    IN  [i \in DOMAIN phases |-> row(phases[i])]

\* The order of the group keys (PHASE, ASSEMBLY NO.), both strings.
KeyLess(a, b) == LexLess(a[1], b[1]) \/ (a[1] = b[1] /\ LexLess(a[2], b[2]))

RECURSIVE SortedKeys(_)
SortedKeys(S) ==
    IF S = {} THEN <<>>
    ELSE LET m == CHOOSE x \in S : \A y \in S \ {x} : KeyLess(x, y)
         IN  <<m>> \o SortedKeys(S \ {m})

\* Variant: the furthest-advanced member decides.
MinRank_max(ranks) == CHOOSE r \in ranks : \A q \in ranks : r >= q

\* min(ranks) of a non-empty set of ranks.
MinRank(ranks) == CHOOSE r \in ranks : \A q \in ranks : r <= q

\* The aggregation of one group's Etape values (line 160).
EtapeRankOf(cells) ==
    IF Len(cells) # 0 THEN MinRank({STEP_RANK_get(cells[i]) : i \in DOMAIN cells}) ELSE -1

\* agg["EtapeRank"].map(inv_rank).fillna("None")
EtapeAsmOf(rank) ==
    IF rank \in 0..(Len(STEPS_ORDER) - 1) THEN STEPS_ORDER[rank + 1] ELSE "None"

\* groupby drops the rows whose key has a missing value and sorts the groups
\* by key.
assembly_table(df) ==
    LET keyed(r) == r["PHASE"].t # "nan" /\ r["ASSEMBLY NO."].t # "nan"
        keys == SortedKeys({<<df.rows[i]["PHASE"].s, df.rows[i]["ASSEMBLY NO."].s>> :
                                i \in {j \in DOMAIN df.rows : keyed(df.rows[j])}})
        row(k) ==
            LET member == [i \in DOMAIN df.rows |->
                              /\ keyed(df.rows[i])
                              /\ df.rows[i]["PHASE"].s = k[1]
                              /\ df.rows[i]["ASSEMBLY NO."].s = k[2]]
            IN  ("PHASE" :> k[1]) @@ ("ASSEMBLY NO." :> k[2]) @@
                ("AssemblyMass" :> MassSum(Loc(df, member, "TOT MASS (Kg)"))) @@
                ("EtapeAsm" :> EtapeAsmOf(EtapeRankOf(Loc(df, member, "Etape"))))
    IN  [i \in DOMAIN keys |-> row(keys[i])]

(***************************************************************************)
(* Inputs: the workbooks a user can upload or keep at DEFAULT_XLSX.        *)
(***************************************************************************)
RequiredCols == Range(required)
AppCols == {"Etape", "RowProgress%", "CompletedMass_Row"}
AllCols == RequiredCols \cup AppCols

\* Values a workbook carries in its own RowProgress% / CompletedMass_Row
\* columns: not the ones the weights give.
StaleProgress == Q(1, 2)
StaleCompleted == QInt(7)

\* The row <<phase, assembly, mass, etape>> of a workbook with columns cols.
MkRow(cols, x) ==
    [c \in cols |->
        CASE c = "PHASE" -> x[1]
          [] c = "ASSEMBLY NO." -> x[2]
          [] c = "PART NO." -> Str(<<80>>)
          [] c = "TOT MASS (Kg)" -> x[3]
          [] c = "Etape" -> x[4]
          [] c = "RowProgress%" -> StaleProgress
          [] c = "CompletedMass_Row" -> StaleCompleted]

SeqsUpTo(S, n) == UNION {[1..k -> S] : k \in 0..n}

Tables(cols, X, n) ==
    {[cols |-> cols, rows |-> rs] : rs \in SeqsUpTo({MkRow(cols, x) : x \in X}, n)}

Readable(table) == [readable |-> TRUE, table |-> table]
Unreadable == [readable |-> FALSE, table |-> [cols |-> {}, rows |-> <<>>]]

A1 == Str(<<65, 49>>)
A2 == Str(<<65, 50>>)

\* Rows of the generated tables: the keys vary over rows of mass 1, and the
\* mass and the step vary over the rows of assembly ("2", "A1").
FnRowsKeys ==
    {Num(10), Str(<<50>>), NaN} \X {A1, A2, NaN} \X {Num(1)}
        \X {Label("Préparation"), Label("Finalisation")}
FnRowsValues ==
    {Num(2)} \X {A1} \X {Num(-1), Num(0), Num(1)}
        \X ({Label(STEPS_ORDER[i]) : i \in DOMAIN STEPS_ORDER} \cup
            {Label("None"), Label("Autre"), NoLabel})
FnFiles == {Readable(t) : t \in Tables(AllCols, FnRowsKeys \cup FnRowsValues, MaxRows)}

\* Rows of the files of the multi-run application.
AppRows ==
    { <<Num(2), A1, Num(1), Label("Assemblage")>>,
      <<NaN, A1, Str(<<120>>), Label("Autre")>>,
      <<Num(2), NaN, Num(-1), Label("Finalisation")>>,
      <<Num(10), A2, Num(0), NoLabel>>,
      <<Str(<<50>>), A1, Str(<<51>>), Label("None")>> }
AppFiles ==
    {Readable(t) : t \in Tables(AllCols, AppRows, MaxAppRows)
                         \cup Tables(RequiredCols, AppRows, MaxAppRows)
                         \cup UNION {Tables(AllCols \ {c}, AppRows, 0) : c \in RequiredCols}}
        \cup {Unreadable}
FileNames == {"a.xlsx", "b.xlsx"}
DefaultFiles ==
    {Unreadable, Readable([cols |-> AllCols,
                           rows |-> <<MkRow(AllCols, <<Num(2), A1, Num(2), Label("Préparation")>>)>>])}

(***************************************************************************)
(* The script run.                                                         *)
(***************************************************************************)
NoSession == [k \in {} |-> <<>>]

\* A widget interaction reruns the script from its first line: the names of
\* the previous run are gone, st.session_state stays.
Rerun ==
    /\ pc \in {"idle", "done", "stopped"}
    /\ \E u \in {<<>>} \cup {<<[name |-> n, file |-> f]>> : n \in FileNames, f \in AppFiles} :
          uploaded' = u
    /\ pc' = "load"
    /\ heap' = <<>>
    /\ df_loaded' = 0
    /\ current_source_key' = <<>>
    /\ source_label' = <<>>
    /\ error' = <<>>
    /\ caption' = <<>>
    /\ kpi' = <<>>
    /\ df_steps' = <<>>
    /\ df_phase' = <<>>
    /\ UNCHANGED <<session_state, df_asm, default_file>>

\* Lines 87-98.
Load ==
    /\ pc = "load"
    /\ LET file == IF uploaded # <<>> THEN uploaded[1].file ELSE default_file
       IN  IF file.readable
           THEN /\ heap' = <<load_excel(file)>>
                /\ df_loaded' = 1
                /\ source_label' = IF uploaded # <<>>
                                   THEN <<"Fichier importé", uploaded[1].name>>
                                   ELSE <<"Fichier local", DEFAULT_XLSX>>
                /\ current_source_key' = IF uploaded # <<>>
                                         THEN <<"upload", uploaded[1].name>>
                                         ELSE <<"local", DEFAULT_XLSX>>
                /\ pc' = "loaded"
                /\ UNCHANGED error
           ELSE /\ error' = <<"Échec de chargement">>
                /\ pc' = "stopped"
                /\ UNCHANGED <<heap, df_loaded, source_label, current_source_key>>
    /\ UNCHANGED <<uploaded, session_state, caption, kpi, df_steps, df_phase, df_asm,
                   default_file>>

\* Lines 100-101: df_loaded = ensure_columns(df_loaded), then the caption.
EnsureColumns ==
    /\ pc = "loaded"
    /\ LET r == ensure_columns(heap, df_loaded)
       IN  /\ heap' = r.heap
           /\ error' = r.error
           /\ IF r.stopped
              THEN pc' = "stopped" /\ UNCHANGED <<df_loaded, caption>>
              ELSE pc' = "validated" /\ df_loaded' = r.ret /\ caption' = source_label
    /\ UNCHANGED <<uploaded, current_source_key, source_label, session_state, kpi,
                   df_steps, df_phase, df_asm, default_file>>

\* Lines 106-114 on the session dictionary ss: df_loaded.copy() is a table of
\* its own.
init_session(ss, loaded, key) ==
    LET s1 == IF "df" \notin DOMAIN ss
              THEN ("df" :> loaded) @@ ("source_key" :> key) @@ ss
              ELSE IF ss["source_key"] # key
              THEN ("df" :> loaded) @@ ("source_key" :> key) @@ ss
              ELSE ss
    IN  IF "refresh_needed" \notin DOMAIN s1 THEN ("refresh_needed" :> FALSE) @@ s1 ELSE s1

SessionInit ==
    /\ pc = "validated"
    /\ session_state' = init_session(session_state, heap[df_loaded], current_source_key)
    /\ pc' = "session"
    /\ UNCHANGED <<uploaded, heap, df_loaded, current_source_key, source_label, error,
                   caption, kpi, df_steps, df_phase, df_asm, default_file>>

\* Line 167.
Recompute ==
    /\ pc = "session"
    /\ session_state' = [session_state EXCEPT !["df"] = recompute_progress(@)]
    /\ pc' = "recomputed"
    /\ UNCHANGED <<uploaded, heap, df_loaded, current_source_key, source_label, error,
                   caption, kpi, df_steps, df_phase, df_asm, default_file>>

\* Lines 179-181.
global_kpi(df) ==
    LET total_mass == MassSum(Column(df, "TOT MASS (Kg)"))
        completed_global_mass == QSum(Column(df, "CompletedMass_Row"))
    IN  [total_mass |-> total_mass,
         completed_global_mass |-> completed_global_mass,
         progress_global |-> PctOf(completed_global_mass, total_mass)]

\* Lines 177-250.
TabKpi ==
    /\ pc = "recomputed"
    /\ kpi' = <<global_kpi(session_state["df"])>>
    /\ df_steps' = <<step_advancement(session_state["df"])>>
    /\ df_phase' = <<phase_advancement(session_state["df"])>>
    /\ pc' = "kpi"
    /\ UNCHANGED <<uploaded, heap, df_loaded, current_source_key, source_label, error,
                   caption, session_state, df_asm, default_file>>

\* Lines 255-277: df_steps is computed again, with the column Cumul_Masse.
TabGraph ==
    /\ pc = "kpi"
    /\ LET steps == step_advancement(session_state["df"])
       IN  df_steps' = <<[i \in DOMAIN steps |->
                            ("Cumul_Masse" :> steps[i]["CompletedMass"]) @@ steps[i]]>>
    /\ pc' = "done"
    /\ UNCHANGED <<uploaded, heap, df_loaded, current_source_key, source_label, error,
                   caption, session_state, kpi, df_phase, df_asm, default_file>>

\* assembly_table is defined for use "au besoin": applied to the session
\* table of a finished run.
AssemblyView ==
    /\ pc = "done"
    /\ df_asm' = <<assembly_table(session_state["df"])>>
    /\ pc' = "assembly"
    /\ UNCHANGED <<uploaded, heap, df_loaded, current_source_key, source_label, error,
                   caption, session_state, kpi, df_steps, df_phase, default_file>>

Blank ==
    /\ heap = <<>>
    /\ df_loaded = 0
    /\ current_source_key = <<>>
    /\ source_label = <<>>
    /\ session_state = NoSession
    /\ error = <<>>
    /\ caption = <<>>
    /\ kpi = <<>>
    /\ df_steps = <<>>
    /\ df_phase = <<>>
    /\ df_asm = <<>>

\* The application: any sequence of script runs, each with any widget state.
Init ==
    /\ pc = "idle"
    /\ uploaded = <<>>
    /\ default_file \in DefaultFiles
    /\ Blank

Next == Rerun \/ Load \/ EnsureColumns \/ SessionInit \/ Recompute \/ TabKpi \/ TabGraph

Spec == Init /\ [][Next]_vars

\* One script run of a fresh session on a generated workbook, followed by the
\* assembly view.
InitFn ==
    /\ pc = "load"
    /\ \E f \in FnFiles : uploaded = <<[name |-> "a.xlsx", file |-> f]>>
    /\ default_file = Unreadable
    /\ Blank

NextFn == Load \/ EnsureColumns \/ SessionInit \/ Recompute \/ TabKpi \/ TabGraph \/ AssemblyView

SpecFn == InitFn /\ [][NextFn]_vars

(***************************************************************************)
(* The statements of the specification, in their own terms.                *)
(***************************************************************************)
T == session_state["df"]

ClaimSteps == <<"Préparation", "Assemblage", "Traitement de surface", "Finalisation">>

\* Rank of a record's step: 0..3 in the fixed order, -1 for "None", for an
\* unrecognized step and for a missing one.
ClaimRank(cell) ==
    IF cell.t # "str" THEN -1
    ELSE CASE cell.v = "Préparation" -> 0
           [] cell.v = "Assemblage" -> 1
           [] cell.v = "Traitement de surface" -> 2
           [] cell.v = "Finalisation" -> 3
           [] OTHER -> -1

\* Weight of a record's step: 0.25 / 0.60 / 0.85 / 1.00, 0 otherwise.
ClaimWeight(cell) ==
    CASE ClaimRank(cell) = 0 -> Q(1, 4)
      [] ClaimRank(cell) = 1 -> Q(3, 5)
      [] ClaimRank(cell) = 2 -> Q(17, 20)
      [] ClaimRank(cell) = 3 -> QInt(1)
      [] OTHER -> QZero

\* The sum of F(i) over the finite set I.
RECURSIVE SumOver(_, _)
SumOver(F(_), I) ==
    IF I = {} THEN QZero
    ELSE LET i == CHOOSE j \in I : TRUE IN QAdd(F(i), SumOver(F, I \ {i}))

RowMass(i) == QInt(T.rows[i]["TOT MASS (Kg)"].n)
RowWeighted(i) == QMul(RowMass(i), ClaimWeight(T.rows[i]["Etape"]))
Rows == DOMAIN T.rows
Ratio100(x, total) == QMul(QDiv(x, total), QInt(100))

\* C1: step_advancement returns one row per defined step, in the fixed order,
\* whose treated mass is the sum of the mass of the records of rank >= the
\* step's rank, and whose percentage is treated mass / total mass * 100.
C1_StepAdvancement ==
    df_steps # <<>> =>
        LET R == df_steps[1]
            total == SumOver(RowMass, Rows)
            treated(k) == SumOver(RowMass, {i \in Rows : ClaimRank(T.rows[i]["Etape"]) >= k - 1})
        IN  /\ Len(R) = Len(ClaimSteps)
            /\ \A k \in DOMAIN R :
                  /\ R[k]["Etape"] = ClaimSteps[k]
                  /\ R[k]["CompletedMass"] = treated(k)
                  /\ total # QZero => R[k]["Avancement%"] = Ratio100(treated(k), total)

\* C2: phase_advancement returns one entry per distinct phase string, in
\* ascending order, with treated mass = sum of mass * weight(step) over the
\* records of the phase and percentage = treated mass / phase mass * 100.
C2_PhaseAdvancement ==
    df_phase # <<>> =>
        LET R == df_phase[1]
            of(p) == {i \in Rows : T.rows[i]["PHASE"].s = p}
        IN  /\ {R[k]["PHASE"] : k \in DOMAIN R} = {T.rows[i]["PHASE"].s : i \in Rows}
            /\ \A k \in DOMAIN R : k > 1 => LexLess(R[k - 1]["PHASE"], R[k]["PHASE"])
            /\ \A k \in DOMAIN R :
                  LET p == R[k]["PHASE"]
                      total == SumOver(RowMass, of(p))
                      treated == SumOver(RowWeighted, of(p))
                  IN  /\ R[k]["CompletedMass"] = treated
                      /\ total # QZero => R[k]["Avancement%"] = Ratio100(treated, total)

\* C8: the treated mass of step_advancement does not increase with the step
\* rank, whatever numeric masses ensure_columns lets through.
C8_StepsNonIncreasing ==
    df_steps # <<>> =>
        LET R == df_steps[1]
        IN  \A k \in DOMAIN R :
               k > 1 => QGeq(R[k - 1]["CompletedMass"], R[k]["CompletedMass"])

Lacks(table) ==
    \E c \in {"PHASE", "ASSEMBLY NO.", "PART NO.", "TOT MASS (Kg)"} : c \notin table.cols

\* C4: when the loaded table lacks a required column, the run stops with an
\* error that names a missing column; the loaded table is left as loaded, the
\* session is left unchanged, nothing is computed, and a stopped run does
\* nothing more until the script is run again.
C4_MissingColumnHalts ==
    [][ /\ (pc = "loaded" /\ Lacks(heap[df_loaded])) =>
              /\ pc' = "stopped"
              /\ Len(error') = 2
              /\ error'[2] \in {"PHASE", "ASSEMBLY NO.", "PART NO.", "TOT MASS (Kg)"}
                                  \ heap[df_loaded].cols
              /\ heap' = heap
              /\ session_state' = session_state
              /\ kpi' = <<>> /\ df_steps' = <<>> /\ df_phase' = <<>>
        /\ pc = "stopped" => pc' = "load" ]_vars

\* A run stopped on a missing column while the session holds a table of an
\* earlier run.
C4_Witness ==
    /\ pc = "stopped"
    /\ heap # <<>>
    /\ Lacks(heap[1])
    /\ "df" \in DOMAIN session_state

\* C5: a successful ensure_columns leaves the table object it was given as it
\* was and returns the validated table as another object.
C5_InputNotMutated ==
    [][ (pc = "loaded" /\ pc' = "validated") =>
            /\ heap'[df_loaded] = heap[df_loaded]
            /\ df_loaded' # df_loaded ]_vars

\* C6: where a run reads the session table for the KPI or an aggregation,
\* every record's RowProgress% is the weight of its step, within [0, 1], and
\* its CompletedMass_Row is mass * RowProgress%.
C6_DerivedFieldsConsistent ==
    pc \in {"recomputed", "kpi"} =>
        \A i \in Rows :
            /\ T.rows[i]["RowProgress%"] = ClaimWeight(T.rows[i]["Etape"])
            /\ QGeq(T.rows[i]["RowProgress%"], QZero)
            /\ QGeq(QInt(1), T.rows[i]["RowProgress%"])
            /\ T.rows[i]["CompletedMass_Row"] = QMul(RowMass(i), T.rows[i]["RowProgress%"])

\* A run about to read a session table that came from an uploaded workbook
\* with its own RowProgress% and CompletedMass_Row columns and a record at an
\* unrecognized step.
C6_Witness ==
    /\ pc = "recomputed"
    /\ uploaded # <<>>
    /\ {"RowProgress%", "CompletedMass_Row"} \subseteq uploaded[1].file.table.cols
    /\ uploaded[1].file.table.rows # <<>>
    /\ \E i \in Rows : T.rows[i]["Etape"] = Label("Autre")

RowCompleted(i) == T.rows[i]["CompletedMass_Row"]

\* C7: the treated masses of phase_advancement add up to the global completed
\* mass of the KPI, the sum of CompletedMass_Row over all records.
C7_PhasesPartitionCompleted ==
    (kpi # <<>> /\ df_phase # <<>>) =>
        LET R == df_phase[1]
            treated(k) == R[k]["CompletedMass"]
        IN  /\ kpi[1].completed_global_mass = SumOver(RowCompleted, Rows)
            /\ SumOver(treated, DOMAIN R) = kpi[1].completed_global_mass

\* Several phases, one of them of records without a phase, each with a
\* treated mass that is not 0.
C7_Witness ==
    /\ kpi # <<>>
    /\ df_phase # <<>>
    /\ Len(df_phase[1]) >= 2
    /\ \A k \in DOMAIN df_phase[1] : df_phase[1][k]["CompletedMass"] # QZero
    /\ \E i \in Rows : uploaded[1].file.table.rows[i]["PHASE"] = NaN

C10_SessionFollowsSelection ==
    pc \in {"recomputed", "kpi", "done"} =>
        LET L == heap[df_loaded]
        IN  /\ session_state["source_key"] = current_source_key
            /\ Len(T.rows) = Len(L.rows)
            /\ \A i \in Rows :
                  \A c \in {"PHASE", "ASSEMBLY NO.", "PART NO.", "TOT MASS (Kg)", "Etape"} :
                      T.rows[i][c] = L.rows[i][c]

====
